---- MODULE Spec2Model ----
(***************************************************************************)
(* A model of lib/utils/oclif-utils.ts of balena-cli:                      *)
(*   - the `logs` command action (local-device path, cloud tail path,      *)
(*     cloud history path) with its collaborators as nondeterministic      *)
(*     outcomes;                                                           *)
(*   - capitanoizeOclifUsage, CommandHelp.defaultUsage and                 *)
(*     getCommandIdsFromManifest, with strings as sequences of characters. *)
(***************************************************************************)
EXTENDS Integers, Sequences, FiniteSets, TLC

VARIABLES
    \* ---- logs.action ----
    uuidOrDevice,   \* params.uuidOrDevice
    tail,           \* options.tail
    logMessages,    \* what the log source (history list, cloud stream, device stream) delivers, in order
    pc,             \* position of the async action
    calls,          \* collaborators called so far, in call order
    raised,         \* the collaborators that raised an error so far
    handled,        \* number of log entries handed to a display handler so far
    resolution,     \* per entry: state of its serviceIdToName lookup
    displayed,      \* the objects passed to the display step, in call order
    outcome,        \* settlement of the promise returned by action()
    error,          \* the rejection value of that promise
    \* ---- capitanoizeOclifUsage ----
    oclifUsage,
    usageResult,
    \* ---- CommandHelp.defaultUsage ----
    command,
    helpResult,
    \* ---- getCommandIdsFromManifest ----
    manifestFile,   \* what is on disk at ./oclif.manifest.json
    mpc,            \* position inside getCommandsFromManifest / getCommandIdsFromManifest
    manifest,       \* the local variable `manifest`
    commands,       \* the local variable `commands`
    manifestResult  \* settlement of getCommandIdsFromManifest()

logsVars == <<uuidOrDevice, tail, logMessages, pc, calls, raised, handled,
              resolution, displayed, outcome, error>>
usageVars == <<oclifUsage, usageResult>>
helpVars == <<command, helpResult>>
manifestVars == <<manifestFile, mpc, manifest, commands, manifestResult>>
vars == <<logsVars, usageVars, helpVars, manifestVars>>

-----------------------------------------------------------------------------
(* Bounds of the model *)

MaxLogs == 3
MaxServiceId == 2
MaxTokens == 4
MaxArgs == 3
MaxCommands == 5

-----------------------------------------------------------------------------
(* Generic helpers *)

Range(s) == {s[i] : i \in 1..Len(s)}

Count(s, x) == Cardinality({i \in 1..Len(s) : s[i] = x})

SeqsUpTo(S, n) == UNION {[1..k -> S] : k \in 0..n}

IsPrefix(s, t) == Len(s) <= Len(t) /\ \A i \in 1..Len(s) : s[i] = t[i]

-----------------------------------------------------------------------------
(* logs: values *)

\* One address of each shape the action distinguishes.
Identifiers == {"192.168.0.31", "23c73a1.local", "23c73a1"}

validateIPAddress(address) == address \in {"192.168.0.31"}

validateDotLocalUrl(input) == input \in {"23c73a1.local"}

ServiceIds == 1..MaxServiceId

ServiceNames == <<"main", "db", "proxy", "cache">>

\* A LogMessage; its timestamp is its position in the source's order.
LogMessage(t, sys, sid) == [timestamp |-> t, isSystem |-> sys, serviceId |-> sid]

LogKinds == {<<TRUE, 0>>} \cup {<<FALSE, s>> : s \in ServiceIds}

LogLists ==
    {[i \in 1..Len(ks) |-> LogMessage(i, ks[i][1], ks[i][2])] : ks \in SeqsUpTo(LogKinds, MaxLogs)}

NoError == [type |-> "none", text |-> ""]

\* The error a collaborator raises (an opaque value identified by its origin).
ErrorFrom(who) == [type |-> "Error", text |-> who]

ExpectedError(message) == [type |-> "ExpectedError", text |-> message]

\* What serviceIdToName can settle with: a name, no name, or a rejection.
NameLookups == {"name", "null", "error"}

serviceIdToName(serviceId) == ServiceNames[serviceId]

-----------------------------------------------------------------------------
(* logs: the display step *)

\* { serviceName, ...line }
WithServiceName(serviceName, line) ==
    [timestamp |-> line.timestamp, isSystem |-> line.isSystem,
     serviceId |-> line.serviceId, serviceName |-> serviceName]

\* displayLogObject(obj, ...): the object is handed to the formatter
displayLogObject(obj) == Append(displayed, obj)

\* A variant without the `serviceName == null` fallback.
CloudLogObjectNoFallback(line, lookup) ==
    WithServiceName(IF lookup = "null" THEN "null"
                    ELSE serviceIdToName(line.serviceId), line)

\* The second half of displayCloudLog for a non-system line, after the await:
\* the object it passes to displayLogObject given what the lookup returned.
CloudLogObject(line, lookup) ==
    WithServiceName(IF lookup = "null" THEN "Unknown service"
                    ELSE serviceIdToName(line.serviceId), line)

\* A variant in which --tail forces the cloud path.
IsLocalDeviceUnlessTail ==
    (validateIPAddress(uuidOrDevice) \/ validateDotLocalUrl(uuidOrDevice)) /\ ~tail

\* if (validateIPAddress(params.uuidOrDevice) || validateDotLocalUrl(params.uuidOrDevice))
IsLocalDevice == validateIPAddress(uuidOrDevice) \/ validateDotLocalUrl(uuidOrDevice)

\* The 'line' and 'error' listeners are attached once subscribe has resolved
\* and are never removed, whatever becomes of the controlling promise.
Listening == "subscribe" \in Range(calls) /\ "subscribe" \notin raised

Reject(who, e) ==
    /\ raised' = (raised \cup {who})
    /\ outcome' = "rejected"
    /\ error' = e
    /\ pc' = "done"

-----------------------------------------------------------------------------
(* logs: Init *)

LogsInit ==
    /\ uuidOrDevice \in Identifiers
    /\ tail \in BOOLEAN
    /\ logMessages \in LogLists
    /\ pc = "start"
    /\ calls = <<>>
    /\ raised = {}
    /\ handled = 0
    /\ resolution = [i \in 1..Len(logMessages) |-> "unattempted"]
    /\ displayed = <<>>
    /\ outcome = "pending"
    /\ error = NoError

-----------------------------------------------------------------------------
(* logs: the action, one step per resumption of the async function *)

LogsFrame == UNCHANGED <<uuidOrDevice, tail, logMessages, usageVars, helpVars, manifestVars>>

\* action() up to its first collaborator call: the branch on the identifier
Start ==
    /\ pc = "start"
    /\ pc' = IF IsLocalDevice THEN "ping" ELSE "checkLoggedIn"
    /\ UNCHANGED <<calls, raised, handled, resolution, displayed, outcome, error>>
    /\ LogsFrame

\* A variant whose catch block rethrows the ping error untranslated.
PingRethrows ==
    /\ pc = "ping"
    /\ calls' = Append(calls, "ping")
    /\ \E ok \in BOOLEAN :
         IF ok
         THEN /\ pc' = "getLogStream"
              /\ UNCHANGED <<raised, outcome, error>>
         ELSE Reject("ping", ErrorFrom("ping"))
    /\ UNCHANGED <<handled, resolution, displayed>>
    /\ UNCHANGED <<uuidOrDevice, tail, logMessages, usageVars, helpVars, manifestVars>>

\* try { await deviceApi.ping() } catch (e) { throw new ExpectedError(...) }
Ping ==
    /\ pc = "ping"
    /\ calls' = Append(calls, "ping")
    /\ \E ok \in BOOLEAN :
         IF ok
         THEN /\ pc' = "getLogStream"
              /\ UNCHANGED <<raised, outcome, error>>
         ELSE Reject("ping", ExpectedError(
                  "Cannot access local mode device at address " \o uuidOrDevice))
    /\ UNCHANGED <<handled, resolution, displayed>>
    /\ LogsFrame

\* const logStream = await deviceApi.getLogStream(); then displayDeviceLogs(logStream, ...) is called
GetLogStream ==
    /\ pc = "getLogStream"
    /\ \E ok \in BOOLEAN :
         IF ok
         THEN /\ calls' = calls \o <<"getLogStream", "displayDeviceLogs">>
              /\ pc' = "displayDeviceLogs"
              /\ UNCHANGED <<raised, outcome, error>>
         ELSE /\ calls' = Append(calls, "getLogStream")
              /\ Reject("getLogStream", ErrorFrom("getLogStream"))
    /\ UNCHANGED <<handled, resolution, displayed>>
    /\ LogsFrame

\* displayDeviceLogs: the device stream delivers its next entry, which is displayed
DeviceLog ==
    /\ pc = "displayDeviceLogs"
    /\ handled < Len(logMessages)
    /\ handled' = handled + 1
    /\ displayed' = displayLogObject(logMessages[handled + 1])
    /\ UNCHANGED <<pc, calls, raised, resolution, outcome, error>>
    /\ LogsFrame

\* displayDeviceLogs rejects: the device stream broke
DeviceStreamError ==
    /\ pc = "displayDeviceLogs"
    /\ Reject("displayDeviceLogs", ErrorFrom("displayDeviceLogs"))
    /\ UNCHANGED <<calls, handled, resolution, displayed>>
    /\ LogsFrame

\* displayDeviceLogs resolves: the device stream ended; action() returns
DeviceStreamEnd ==
    /\ pc = "displayDeviceLogs"
    /\ outcome' = "resolved"
    /\ pc' = "done"
    /\ UNCHANGED <<calls, raised, handled, resolution, displayed, error>>
    /\ LogsFrame

\* A variant with the test of options.tail inverted.
CheckLoggedInTailInverted ==
    /\ pc = "checkLoggedIn"
    /\ calls' = Append(calls, "checkLoggedIn")
    /\ \E ok \in BOOLEAN :
         IF ok
         THEN /\ pc' = IF tail THEN "history" ELSE "subscribe"
              /\ UNCHANGED <<raised, outcome, error>>
         ELSE Reject("checkLoggedIn", ErrorFrom("checkLoggedIn"))
    /\ UNCHANGED <<handled, resolution, displayed>>
    /\ UNCHANGED <<uuidOrDevice, tail, logMessages, usageVars, helpVars, manifestVars>>

\* await checkLoggedIn(); if (options.tail) ... else ...
CheckLoggedIn ==
    /\ pc = "checkLoggedIn"
    /\ calls' = Append(calls, "checkLoggedIn")
    /\ \E ok \in BOOLEAN :
         IF ok
         THEN /\ pc' = IF tail THEN "subscribe" ELSE "history"
              /\ UNCHANGED <<raised, outcome, error>>
         ELSE Reject("checkLoggedIn", ErrorFrom("checkLoggedIn"))
    /\ UNCHANGED <<handled, resolution, displayed>>
    /\ LogsFrame

\* const logStream = await balena.logs.subscribe(...); then the listeners are registered
Subscribe ==
    /\ pc = "subscribe"
    /\ calls' = Append(calls, "subscribe")
    /\ \E ok \in BOOLEAN :
         IF ok
         THEN /\ pc' = "tailing"
              /\ UNCHANGED <<raised, outcome, error>>
         ELSE Reject("subscribe", ErrorFrom("subscribe"))
    /\ UNCHANGED <<handled, resolution, displayed>>
    /\ LogsFrame

\* logStream emits 'line': displayCloudLog(line) runs up to its first await.
\* A system line is displayed at once; a non-system line starts its name lookup.
\* The listener's promise is dropped by the emitter: a failure is not the action's.
StreamLine ==
    /\ Listening
    /\ handled < Len(logMessages)
    /\ handled' = handled + 1
    /\ LET line == logMessages[handled + 1] IN
         IF line.isSystem
         THEN /\ displayed' = displayLogObject(line)
              /\ \E throws \in BOOLEAN :
                   raised' = IF throws THEN (raised \cup {"displayLogObject"}) ELSE raised
              /\ UNCHANGED <<calls, resolution>>
         ELSE /\ calls' = Append(calls, "serviceIdToName")
              /\ resolution' = [resolution EXCEPT ![handled + 1] = "pending"]
              /\ UNCHANGED <<displayed, raised>>
    /\ UNCHANGED <<pc, outcome, error>>
    /\ LogsFrame

\* A variant in which a failing 'line' listener rejects the controlling promise.
TailNameSettledRejecting(i) ==
    /\ Listening
    /\ resolution[i] = "pending"
    /\ \E lookup \in NameLookups :
         /\ resolution' = [resolution EXCEPT ![i] = lookup]
         /\ IF lookup = "error"
            THEN /\ Reject("serviceIdToName", ErrorFrom("serviceIdToName"))
                 /\ UNCHANGED displayed
            ELSE /\ displayed' = displayLogObject(CloudLogObject(logMessages[i], lookup))
                 /\ UNCHANGED <<pc, raised, outcome, error>>
    /\ UNCHANGED <<calls, handled>>
    /\ UNCHANGED <<uuidOrDevice, tail, logMessages, usageVars, helpVars, manifestVars>>

\* Tail mode: the lookup of entry i settles and its displayCloudLog resumes.
TailNameSettled(i) ==
    /\ Listening
    /\ resolution[i] = "pending"
    /\ \E lookup \in NameLookups :
         /\ resolution' = [resolution EXCEPT ![i] = lookup]
         /\ IF lookup = "error"
            THEN /\ raised' = (raised \cup {"serviceIdToName"})
                 /\ UNCHANGED displayed
            ELSE /\ displayed' = displayLogObject(CloudLogObject(logMessages[i], lookup))
                 /\ \E throws \in BOOLEAN :
                      raised' = IF throws THEN (raised \cup {"displayLogObject"}) ELSE raised
    /\ UNCHANGED <<pc, calls, handled, outcome, error>>
    /\ LogsFrame

\* logStream emits 'error': the listener is reject(err). The first call rejects
\* the controlling promise, on which action() is still waiting; a later call
\* finds it settled and changes nothing.
StreamError ==
    /\ Listening
    /\ raised' = (raised \cup {"logStream"})
    /\ pc' = IF pc = "tailing" THEN "rejecting" ELSE pc
    /\ UNCHANGED <<calls, handled, resolution, displayed, outcome, error>>
    /\ LogsFrame

\* await new Promise(...) resumes with the rejection: action() throws the stream's error
TailAwaitRejected ==
    /\ pc = "rejecting"
    /\ outcome' = "rejected"
    /\ error' = ErrorFrom("logStream")
    /\ pc' = "done"
    /\ UNCHANGED <<calls, raised, handled, resolution, displayed>>
    /\ LogsFrame

\* const logMessages = await balena.logs.history(params.uuidOrDevice)
History ==
    /\ pc = "history"
    /\ calls' = Append(calls, "history")
    /\ \E ok \in BOOLEAN :
         IF ok
         THEN /\ pc' = "loop"
              /\ UNCHANGED <<raised, outcome, error>>
         ELSE Reject("history", ErrorFrom("history"))
    /\ UNCHANGED <<handled, resolution, displayed>>
    /\ LogsFrame

\* for (const logMessage of logMessages) { await displayCloudLog(logMessage) }:
\* the loop head. With no entry left action() returns; otherwise displayCloudLog
\* runs up to its first await.
HistoryNext ==
    /\ pc = "loop"
    /\ IF handled = Len(logMessages)
       THEN /\ outcome' = "resolved"
            /\ pc' = "done"
            /\ UNCHANGED <<calls, raised, handled, resolution, displayed, error>>
       ELSE LET line == logMessages[handled + 1] IN
            /\ handled' = handled + 1
            /\ IF line.isSystem
               THEN /\ displayed' = displayLogObject(line)
                    /\ \E throws \in BOOLEAN :
                         IF throws
                         THEN Reject("displayLogObject", ErrorFrom("displayLogObject"))
                         ELSE UNCHANGED <<pc, raised, outcome, error>>
                    /\ UNCHANGED <<calls, resolution>>
               ELSE /\ calls' = Append(calls, "serviceIdToName")
                    /\ resolution' = [resolution EXCEPT ![handled + 1] = "pending"]
                    /\ pc' = "awaitName"
                    /\ UNCHANGED <<displayed, raised, outcome, error>>
    /\ LogsFrame

\* History mode: the awaited lookup of the current entry settles.
HistoryNameSettled ==
    /\ pc = "awaitName"
    /\ resolution[handled] = "pending"
    /\ \E lookup \in NameLookups :
         /\ resolution' = [resolution EXCEPT ![handled] = lookup]
         /\ IF lookup = "error"
            THEN /\ Reject("serviceIdToName", ErrorFrom("serviceIdToName"))
                 /\ UNCHANGED displayed
            ELSE /\ displayed' = displayLogObject(CloudLogObject(logMessages[handled], lookup))
                 /\ \E throws \in BOOLEAN :
                      IF throws
                      THEN Reject("displayLogObject", ErrorFrom("displayLogObject"))
                      ELSE /\ pc' = "loop"
                           /\ UNCHANGED <<raised, outcome, error>>
    /\ UNCHANGED <<calls, handled>>
    /\ LogsFrame

LogsNext ==
    \/ Start
    \/ Ping
    \/ GetLogStream
    \/ DeviceLog
    \/ DeviceStreamError
    \/ DeviceStreamEnd
    \/ CheckLoggedIn
    \/ Subscribe
    \/ StreamLine
    \/ \E i \in 1..Len(logMessages) : TailNameSettled(i)
    \/ StreamError
    \/ TailAwaitRejected
    \/ History
    \/ HistoryNext
    \/ HistoryNameSettled

\* Values the other components' variables hold while the logs action runs.
UsageIdle == oclifUsage = <<>> /\ usageResult = [returned |-> FALSE, value |-> <<>>]
HelpIdle == command = [args |-> <<>>] /\ helpResult = [returned |-> FALSE, value |-> <<>>]
ManifestIdle ==
    /\ manifestFile = [state |-> "absent", json |-> [type |-> "undefined", commands |-> [kind |-> "undefined", length |-> 0, names |-> {}]]]
    /\ mpc = "idle"
    /\ manifest = [type |-> "undefined", commands |-> [kind |-> "undefined", length |-> 0, names |-> {}]]
    /\ commands = [kind |-> "undefined", length |-> 0, names |-> {}]
    /\ manifestResult = [status |-> "pending", error |-> [type |-> "none", text |-> ""], value |-> {}]

Init == LogsInit /\ UsageIdle /\ HelpIdle /\ ManifestIdle

Next == LogsNext

Spec == Init /\ [][Next]_vars

-----------------------------------------------------------------------------
(* logs: properties *)

LocalIdentifier == validateIPAddress(uuidOrDevice) \/ validateDotLocalUrl(uuidOrDevice)

\* The LogMessage a displayed object was built from.
LineOf(obj) == [timestamp |-> obj.timestamp, isSystem |-> obj.isSystem, serviceId |-> obj.serviceId]

Pending == {i \in 1..Len(logMessages) : resolution[i] = "pending"}

DisplaysOf(i) == {k \in 1..Len(displayed) : displayed[k].timestamp = i}

CloudCalls == {"checkLoggedIn", "subscribe", "history", "serviceIdToName"}

\* C1: on the cloud path with tail off and every collaborator succeeding,
\* history is called exactly once, subscribe never, the entries are displayed
\* exactly once each in the order of the returned list, one display finishing
\* before the next starts, and then the action resolves.
C1_HistoryOnceInOrder ==
    (~LocalIdentifier /\ ~tail /\ raised = {}) =>
        /\ Count(calls, "history") <= 1
        /\ "subscribe" \notin Range(calls)
        /\ Len(displayed) <= Len(logMessages)
        /\ \A k \in 1..Len(displayed) : LineOf(displayed[k]) = logMessages[k]
        /\ \A i \in Pending : i = handled /\ Len(displayed) = i - 1
        /\ Cardinality(Pending) <= 1
        /\ outcome # "rejected"
        /\ outcome = "pending" => ENABLED LogsNext
        /\ pc = "done" =>
             /\ outcome = "resolved"
             /\ Count(calls, "history") = 1
             /\ Len(displayed) = Len(logMessages)

C1_Witness ==
    /\ ~LocalIdentifier /\ ~tail /\ raised = {}
    /\ pc = "done" /\ outcome = "resolved"
    /\ Len(logMessages) = MaxLogs
    /\ Len(displayed) = MaxLogs
    /\ \E i \in 1..MaxLogs : ~logMessages[i].isSystem

SubscriptionEstablished ==
    "subscribe" \in Range(calls) /\ "subscribe" \notin raised

\* C2: on the cloud path with tail on, once the subscription is established
\* the action never resolves; it settles only as a rejection, only after the
\* stream emitted 'error', and the rejection carries that error.
C2_TailOnlyRejectsOnStreamError ==
    (~LocalIdentifier /\ tail /\ SubscriptionEstablished) =>
        /\ outcome # "resolved"
        /\ outcome = "rejected" =>
             /\ "logStream" \in raised
             /\ error = [type |-> "Error", text |-> "logStream"]
        /\ pc = "rejecting" => (outcome = "pending" /\ "logStream" \in raised)
        /\ (outcome = "pending" /\ "logStream" \in raised) => ENABLED TailAwaitRejected

C2_Witness ==
    /\ ~LocalIdentifier /\ tail /\ SubscriptionEstablished
    /\ handled >= 2
    /\ Len(displayed) >= 1
    /\ outcome = "rejected"

\* C3: an identifier matching the IP-address or .local pattern takes the
\* local-device path whatever the tail flag: ping, then the device log stream,
\* consumed by displayDeviceLogs; never the login check, subscribe or history.
C3_LocalPathRegardlessOfTail ==
    LocalIdentifier =>
        /\ Range(calls) \cap CloudCalls = {}
        /\ IsPrefix(calls, <<"ping", "getLogStream", "displayDeviceLogs">>)
        /\ pc \in {"start", "ping", "getLogStream", "displayDeviceLogs", "done"}
        /\ pc = "ping" => calls = <<>>
        /\ pc = "getLogStream" => calls = <<"ping">>
        /\ pc = "displayDeviceLogs" => calls = <<"ping", "getLogStream", "displayDeviceLogs">>
        /\ displayed # <<>> => "displayDeviceLogs" \in Range(calls)
        /\ outcome = "resolved" => "displayDeviceLogs" \in Range(calls)

C3_Witness ==
    /\ validateIPAddress(uuidOrDevice)
    /\ ~tail
    /\ calls = <<"ping", "getLogStream", "displayDeviceLogs">>
    /\ Len(displayed) >= 2

\* C4: on the local-device path a failed ping fails the action with the
\* expected 'Cannot access local mode device at address <identifier>' error,
\* the log stream is then never requested and nothing is displayed; the log
\* stream is requested only after a ping succeeded.
C4_PingGuardsLogStream ==
    LocalIdentifier =>
        /\ "ping" \in raised =>
             /\ outcome = "rejected"
             /\ error.type = "ExpectedError"
             /\ error.text = "Cannot access local mode device at address " \o uuidOrDevice
             /\ uuidOrDevice = "192.168.0.31" =>
                  error.text = "Cannot access local mode device at address 192.168.0.31"
             /\ "getLogStream" \notin Range(calls)
             /\ displayed = <<>>
        /\ "getLogStream" \in Range(calls) =>
             /\ "ping" \in Range(calls)
             /\ "ping" \notin raised

C4_Witness ==
    /\ uuidOrDevice = "192.168.0.31"
    /\ "ping" \in raised
    /\ pc = "done"

\* C8: an error raised by any collaborator aborts the whole command: the
\* action is rejected (or is about to be, its await resuming with the error)
\* and no further entry is displayed after the error,
\* also when the handling of a single 'line' event fails in cloud tail mode.
C8_ErrorAbortsCommand ==
    [][raised # {} =>
          ((outcome = "rejected" \/ pc = "rejecting") /\ displayed' = displayed)]_vars

\* C9 (as claimed): on the cloud path every non-system entry whose handling
\* finished was displayed exactly once, with the resolved name or with
\* "Unknown service" when the lookup returned no name or errored; system
\* entries are displayed as received, without a lookup.
C9_UnknownServiceOnAnyFailure ==
    ~LocalIdentifier =>
        \A i \in 1..handled :
            IF logMessages[i].isSystem
            THEN /\ resolution[i] = "unattempted"
                 /\ Cardinality(DisplaysOf(i)) = 1
                 /\ \A k \in DisplaysOf(i) : displayed[k] = logMessages[i]
            ELSE resolution[i] # "pending" =>
                 /\ Cardinality(DisplaysOf(i)) = 1
                 /\ \A k \in DisplaysOf(i) :
                      /\ LineOf(displayed[k]) = logMessages[i]
                      /\ displayed[k].serviceName =
                           IF resolution[i] = "name"
                           THEN ServiceNames[logMessages[i].serviceId]
                           ELSE "Unknown service"

\* C9 (amended): on the cloud path every non-system entry whose lookup
\* returned is displayed exactly once, with the resolved name, or with
\* "Unknown service" when the lookup returned no name; an entry whose lookup
\* errored is not displayed and the error is raised; system entries are
\* displayed exactly once as received, without a lookup.
C9_UnknownServiceOnlyWhenNoName ==
    ~LocalIdentifier =>
        \A i \in 1..handled :
            IF logMessages[i].isSystem
            THEN /\ resolution[i] = "unattempted"
                 /\ Cardinality(DisplaysOf(i)) = 1
                 /\ \A k \in DisplaysOf(i) : displayed[k] = logMessages[i]
            ELSE /\ resolution[i] \in {"name", "null"} =>
                      /\ Cardinality(DisplaysOf(i)) = 1
                      /\ \A k \in DisplaysOf(i) :
                           /\ LineOf(displayed[k]) = logMessages[i]
                           /\ displayed[k].serviceName =
                                IF resolution[i] = "name"
                                THEN ServiceNames[logMessages[i].serviceId]
                                ELSE "Unknown service"
                 /\ resolution[i] \in {"pending", "error"} => DisplaysOf(i) = {}
                 /\ resolution[i] = "error" => "serviceIdToName" \in raised
                 /\ resolution[i] # "unattempted"

C9_Witness ==
    /\ ~LocalIdentifier
    /\ \E i \in 1..handled : resolution[i] = "null" /\ DisplaysOf(i) # {}
    /\ \E i \in 1..handled : resolution[i] = "name" /\ DisplaysOf(i) # {}
    /\ \E i \in 1..handled : logMessages[i].isSystem

\* C10: in cloud tail mode the entries are displayed in the order in which
\* the stream emitted their 'line' events.
C10_TailDisplayInEmitOrder ==
    (~LocalIdentifier /\ tail) =>
        \A k \in 1..(Len(displayed) - 1) :
            displayed[k].timestamp < displayed[k + 1].timestamp

-----------------------------------------------------------------------------
(* Strings as sequences of one-character strings *)

UpperCase == <<"A","B","C","D","E","F","G","H","I","J","K","L","M",
               "N","O","P","Q","R","S","T","U","V","W","X","Y","Z">>

LowerCase == <<"a","b","c","d","e","f","g","h","i","j","k","l","m",
               "n","o","p","q","r","s","t","u","v","w","x","y","z">>

\* [A-Z]
IsUpper(c) == \E i \in 1..26 : UpperCase[i] = c

\* \s: [\t\n\v\f\r \u00a0\u1680\u2000-\u200a\u2028\u2029\u202f\u205f\u3000\ufeff].
\* A character that cannot be written in a string literal is written as its code point.
WhiteSpace ==
    {" ", "\t", "\n", "\f", "\r", "U+000B", "U+00A0", "U+1680",
     "U+2000", "U+2001", "U+2002", "U+2003", "U+2004", "U+2005", "U+2006",
     "U+2007", "U+2008", "U+2009", "U+200A", "U+2028", "U+2029", "U+202F",
     "U+205F", "U+3000", "U+FEFF"}

IsSpace(c) == c \in WhiteSpace

\* The characters of the model's strings: printable ASCII, the white space
\* above, the rest of Latin-1 and U+0130. The case conversions are defined on
\* these characters only.
Characters ==
    WhiteSpace \cup
    {"!", "U+0022", "#", "$", "%", "&", "'", "(", ")", "*",
     "+", ",", "-", ".", "/", "0", "1", "2", "3", "4",
     "5", "6", "7", "8", "9", ":", ";", "<", "=", ">",
     "?", "@", "A", "B", "C", "D", "E", "F", "G", "H",
     "I", "J", "K", "L", "M", "N", "O", "P", "Q", "R",
     "S", "T", "U", "V", "W", "X", "Y", "Z", "[", "U+005C",
     "]", "^", "_", "U+0060", "a", "b", "c", "d", "e", "f",
     "g", "h", "i", "j", "k", "l", "m", "n", "o", "p",
     "q", "r", "s", "t", "u", "v", "w", "x", "y", "z",
     "{", "|", "}", "~"} \cup
    {"U+00A1", "U+00A2", "U+00A3", "U+00A4", "U+00A5", "U+00A6", "U+00A7", "U+00A8",
     "U+00A9", "U+00AA", "U+00AB", "U+00AC", "U+00AD", "U+00AE", "U+00AF", "U+00B0",
     "U+00B1", "U+00B2", "U+00B3", "U+00B4", "U+00B5", "U+00B6", "U+00B7", "U+00B8",
     "U+00B9", "U+00BA", "U+00BB", "U+00BC", "U+00BD", "U+00BE", "U+00BF", "U+00C0",
     "U+00C1", "U+00C2", "U+00C3", "U+00C4", "U+00C5", "U+00C6", "U+00C7", "U+00C8",
     "U+00C9", "U+00CA", "U+00CB", "U+00CC", "U+00CD", "U+00CE", "U+00CF", "U+00D0",
     "U+00D1", "U+00D2", "U+00D3", "U+00D4", "U+00D5", "U+00D6", "U+00D7", "U+00D8",
     "U+00D9", "U+00DA", "U+00DB", "U+00DC", "U+00DD", "U+00DE", "U+00DF", "U+00E0",
     "U+00E1", "U+00E2", "U+00E3", "U+00E4", "U+00E5", "U+00E6", "U+00E7", "U+00E8",
     "U+00E9", "U+00EA", "U+00EB", "U+00EC", "U+00ED", "U+00EE", "U+00EF", "U+00F0",
     "U+00F1", "U+00F2", "U+00F3", "U+00F4", "U+00F5", "U+00F6", "U+00F7", "U+00F8",
     "U+00F9", "U+00FA", "U+00FB", "U+00FC", "U+00FD", "U+00FE", "U+00FF", "U+0130"}

\* The letters of Latin-1 that have a lowercase form in Latin-1, and those forms.
Latin1Upper ==
    <<"U+00C0", "U+00C1", "U+00C2", "U+00C3", "U+00C4", "U+00C5", "U+00C6", "U+00C7",
      "U+00C8", "U+00C9", "U+00CA", "U+00CB", "U+00CC", "U+00CD", "U+00CE", "U+00CF",
      "U+00D0", "U+00D1", "U+00D2", "U+00D3", "U+00D4", "U+00D5", "U+00D6", "U+00D8",
      "U+00D9", "U+00DA", "U+00DB", "U+00DC", "U+00DD", "U+00DE">>

Latin1Lower ==
    <<"U+00E0", "U+00E1", "U+00E2", "U+00E3", "U+00E4", "U+00E5", "U+00E6", "U+00E7",
      "U+00E8", "U+00E9", "U+00EA", "U+00EB", "U+00EC", "U+00ED", "U+00EE", "U+00EF",
      "U+00F0", "U+00F1", "U+00F2", "U+00F3", "U+00F4", "U+00F5", "U+00F6", "U+00F8",
      "U+00F9", "U+00FA", "U+00FB", "U+00FC", "U+00FD", "U+00FE">>

\* The lowercase form of one character (toLowerCase maps U+0130 to two characters).
LowerOf(c) ==
    IF c \notin Characters THEN CHOOSE outside \in {} : TRUE
    ELSE IF \E i \in 1..26 : UpperCase[i] = c
         THEN <<LowerCase[CHOOSE i \in 1..26 : UpperCase[i] = c]>>
    ELSE IF \E i \in 1..Len(Latin1Upper) : Latin1Upper[i] = c
         THEN <<Latin1Lower[CHOOSE i \in 1..Len(Latin1Upper) : Latin1Upper[i] = c]>>
    ELSE IF c = "U+0130" THEN <<"i", "U+0307">>
    ELSE <<c>>

\* The uppercase form of one character (toUpperCase maps U+00DF to "SS", and
\* U+00B5 and U+00FF to letters outside Latin-1).
UpperOf(c) ==
    IF c \notin Characters THEN CHOOSE outside \in {} : TRUE
    ELSE IF \E i \in 1..26 : LowerCase[i] = c
         THEN <<UpperCase[CHOOSE i \in 1..26 : LowerCase[i] = c]>>
    ELSE IF \E i \in 1..Len(Latin1Lower) : Latin1Lower[i] = c
         THEN <<Latin1Upper[CHOOSE i \in 1..Len(Latin1Lower) : Latin1Lower[i] = c]>>
    ELSE IF c = "U+00DF" THEN <<"S", "S">>
    ELSE IF c = "U+00FF" THEN <<"U+0178">>
    ELSE IF c = "U+00B5" THEN <<"U+039C">>
    ELSE <<c>>

\* String.prototype.toLowerCase
RECURSIVE toLowerCase(_)
toLowerCase(s) == IF s = <<>> THEN <<>> ELSE LowerOf(Head(s)) \o toLowerCase(Tail(s))

\* String.prototype.toUpperCase
RECURSIVE toUpperCase(_)
toUpperCase(s) == IF s = <<>> THEN <<>> ELSE UpperOf(Head(s)) \o toUpperCase(Tail(s))

\* Array.prototype.join
RECURSIVE join(_, _)
join(array, sep) ==
    IF Len(array) = 0 THEN <<>>
    ELSE IF Len(array) = 1 THEN array[1]
    ELSE array[1] \o sep \o join(Tail(array), sep)

-----------------------------------------------------------------------------
(* capitanoizeOclifUsage *)

\* The end of the greedy [A-Z]+ starting at position i of s.
UpperRunEnd(s, i) ==
    CHOOSE j \in i..Len(s) :
        /\ \A k \in i..j : IsUpper(s[k])
        /\ j = Len(s) \/ ~IsUpper(s[j + 1])

\* A variant of the pattern without the lookbehind: [A-Z]+(?=(\s|$))
UsageMatchAtNoLookbehind(s, i) ==
    /\ IsUpper(s[i])
    /\ i = 1 \/ ~IsUpper(s[i - 1])
    /\ LET j == UpperRunEnd(s, i) IN j = Len(s) \/ IsSpace(s[j + 1])

\* Whether /(?<=\s)[A-Z]+(?=(\s|$))/ matches at position i of s.
UsageMatchAt(s, i) ==
    /\ i > 1
    /\ IsSpace(s[i - 1])
    /\ IsUpper(s[i])
    /\ LET j == UpperRunEnd(s, i) IN j = Len(s) \/ IsSpace(s[j + 1])

\* .replace(/.../g, (match) => `<${match}>`), scanning from position i
RECURSIVE ReplaceUsageFrom(_, _)
ReplaceUsageFrom(s, i) ==
    IF i > Len(s) THEN <<>>
    ELSE IF UsageMatchAt(s, i)
         THEN LET j == UpperRunEnd(s, i) IN
              <<"<">> \o SubSeq(s, i, j) \o <<">">> \o ReplaceUsageFrom(s, j + 1)
         ELSE <<s[i]>> \o ReplaceUsageFrom(s, i + 1)

capitanoizeOclifUsage(usage) == toLowerCase(ReplaceUsageFrom(usage, 1))

UsageTokens ==
    { <<"E","N","V">>, <<"A","D","D">>, <<"N","A","M","E">>,
      <<"[","V","A","L","U","E","]">>, <<"a","d","d">>, <<>>,
      <<"U+00C9","C","O","L","E">> }

\* What separates two tokens of an input: whitespace of several kinds, or a comma
\* (as between the elements of a string[] after toString()).
UsageSeparators == { <<" ">>, <<"\r">>, <<"\f">>, <<"U+00A0">>, <<",">> }

UsageInputs ==
    {join(ts, sep) : ts \in SeqsUpTo(UsageTokens, MaxTokens), sep \in UsageSeparators}

NotReturned == [returned |-> FALSE, value |-> <<>>]

Returned(v) == [returned |-> TRUE, value |-> v]

UsageInit ==
    /\ oclifUsage \in UsageInputs
    /\ usageResult = NotReturned

Capitanoize ==
    /\ ~usageResult.returned
    /\ usageResult' = Returned(capitanoizeOclifUsage(oclifUsage))
    /\ UNCHANGED <<oclifUsage, logsVars, helpVars, manifestVars>>

-----------------------------------------------------------------------------
(* CommandHelp.defaultUsage *)

\* CommandHelp.arg
arg(a) ==
    LET name == toUpperCase(a.name) IN
    IF a.required THEN name ELSE <<"[">> \o name \o <<"]">>

\* CommandHelp.compact: keeps the truthy (non-empty) strings
compact(array) == SelectSeq(array, LAMBDA a : a # <<>>)

\* this.command.args || []
ArgsOf(cmd) == IF "args" \in DOMAIN cmd THEN cmd.args ELSE <<>>

\* A variant that forgets to filter out the hidden arguments.
defaultUsageShowingHidden(cmd) ==
    LET shown == ArgsOf(cmd)
        rendered == [k \in 1..Len(shown) |-> arg(shown[k])]
    IN join(compact(<<join(rendered, <<" ">>)>>), <<" ">>)

\* CommandHelp.defaultUsage
defaultUsage(cmd) ==
    LET shown == SelectSeq(ArgsOf(cmd), LAMBDA a : ~a.hidden)
        rendered == [k \in 1..Len(shown) |-> arg(shown[k])]
    IN join(compact(<<join(rendered, <<" ">>)>>), <<" ">>)

ArgNames == { <<"n","a","m","e">>, <<"v","A","l">>, <<"U+00E9","U+00DF">> }

ArgDescriptors == [name : ArgNames, required : BOOLEAN, hidden : BOOLEAN]

Commands ==
    {[id |-> "version"]} \cup {[id |-> "env add", args |-> a] : a \in SeqsUpTo(ArgDescriptors, MaxArgs)}

HelpInit ==
    /\ command \in Commands
    /\ helpResult = NotReturned

DefaultUsage ==
    /\ ~helpResult.returned
    /\ helpResult' = Returned(defaultUsage(command))
    /\ UNCHANGED <<command, logsVars, usageVars, manifestVars>>

-----------------------------------------------------------------------------
(* getCommandsFromManifest / getCommandIdsFromManifest *)

AllCommandNames == <<"logs", "version", "env add", "envs", "push", "devices", "ssh">>

CommandNames == {AllCommandNames[i] : i \in 1..MaxCommands}

\* The value of a `commands` property (or of its absence: undefined).
Value(kind, length, names) == [kind |-> kind, length |-> length, names |-> names]

Undefined == Value("undefined", 0, {})

CommandsValues ==
    {Undefined, Value("null", 0, {}), Value("number", 0, {}),
     Value("string", 2, {}), Value("array", 2, {})}
    \cup {Value("object", 0, ks) : ks \in SUBSET CommandNames}

\* A parsed JSON document: its type and, for every type but null, what
\* reading its `commands` property gives.
Json(type, cmds) == [type |-> type, commands |-> cmds]

JsonDocuments ==
    {Json("null", Undefined), Json("number", Undefined), Json("string", Undefined),
     Json("array", Undefined)}
    \cup {Json("object", c) : c \in CommandsValues}

\* What ./oclif.manifest.json is: missing, unreadable, not JSON, or a JSON document.
ManifestFiles ==
    {[state |-> st, json |-> Json("undefined", Undefined)] : st \in {"absent", "unreadable", "malformed"}}
    \cup {[state |-> "json", json |-> d] : d \in JsonDocuments}

PendingResult == [status |-> "pending", error |-> NoError, value |-> {}]

Resolved(v) == [status |-> "resolved", error |-> NoError, value |-> v]

Rejected(e) == [status |-> "rejected", error |-> e, value |-> {}]

\* The errors of the collaborators (fs, JSON.parse, the runtime).
ENOENT == [type |-> "ENOENT", text |-> "no such file or directory"]
EACCES == [type |-> "EACCES", text |-> "permission denied"]
SyntaxError == [type |-> "SyntaxError", text |-> "Unexpected token"]
TypeError == [type |-> "TypeError", text |-> "Cannot read property 'commands' of null"]

\* Object.keys
ObjectKeys(v) ==
    CASE v.kind = "object" -> v.names
      [] v.kind \in {"string", "array"} -> {ToString(i) : i \in 0..(v.length - 1)}
      [] OTHER -> {}

ManifestInit ==
    /\ manifestFile \in ManifestFiles
    /\ mpc = "readFile"
    /\ manifest = Json("undefined", Undefined)
    /\ commands = Undefined
    /\ manifestResult = PendingResult

ManifestFrame == UNCHANGED <<manifestFile, logsVars, usageVars, helpVars>>

\* The catch block of getCommandsFromManifest
CatchManifestError(e) ==
    IF e.type = "ENOENT"
    THEN Rejected([type |-> "Error", text |-> "Oclif manifest not found."])
    ELSE Rejected(e)

\* await fs.promises.readFile('./oclif.manifest.json', 'utf8')
ReadFile ==
    /\ mpc = "readFile"
    /\ IF manifestFile.state \in {"absent", "unreadable"}
       THEN /\ manifestResult' =
                 CatchManifestError(IF manifestFile.state = "absent" THEN ENOENT ELSE EACCES)
            /\ mpc' = "done"
       ELSE /\ mpc' = "parse"
            /\ UNCHANGED manifestResult
    /\ UNCHANGED <<manifest, commands>>
    /\ ManifestFrame

\* manifest = JSON.parse(...)
ParseManifest ==
    /\ mpc = "parse"
    /\ IF manifestFile.state = "malformed"
       THEN /\ manifestResult' = CatchManifestError(SyntaxError)
            /\ mpc' = "done"
            /\ UNCHANGED manifest
       ELSE /\ manifest' = manifestFile.json
            /\ mpc' = "return"
            /\ UNCHANGED manifestResult
    /\ UNCHANGED commands
    /\ ManifestFrame

\* return manifest.commands; and const commands = await getCommandsFromManifest()
ReturnCommands ==
    /\ mpc = "return"
    /\ IF manifest.type = "null"
       THEN /\ manifestResult' = Rejected(TypeError)
            /\ mpc' = "done"
            /\ UNCHANGED commands
       ELSE /\ commands' = manifest.commands
            /\ mpc' = "ids"
            /\ UNCHANGED manifestResult
    /\ UNCHANGED manifest
    /\ ManifestFrame

\* if (commands == null) throw ...; return Object.keys(commands)
GetCommandIds ==
    /\ mpc = "ids"
    /\ manifestResult' =
         IF commands.kind \in {"undefined", "null"}
         THEN Rejected([type |-> "Error", text |-> "Commands second not found in manifest."])
         ELSE Resolved(ObjectKeys(commands))
    /\ mpc' = "done"
    /\ UNCHANGED <<manifest, commands>>
    /\ ManifestFrame

-----------------------------------------------------------------------------
(* Specifications of the three functions *)

LogsIdle ==
    /\ uuidOrDevice = "23c73a1"
    /\ tail = FALSE
    /\ logMessages = <<>>
    /\ pc = "idle"
    /\ calls = <<>>
    /\ raised = {}
    /\ handled = 0
    /\ resolution = <<>>
    /\ displayed = <<>>
    /\ outcome = "pending"
    /\ error = NoError

UsageSpecInit == UsageInit /\ LogsIdle /\ HelpIdle /\ ManifestIdle
UsageNext == Capitanoize
SpecUsage == UsageSpecInit /\ [][UsageNext]_vars

HelpSpecInit == HelpInit /\ LogsIdle /\ UsageIdle /\ ManifestIdle
HelpNext == DefaultUsage
SpecHelp == HelpSpecInit /\ [][HelpNext]_vars

ManifestSpecInit == ManifestInit /\ LogsIdle /\ UsageIdle /\ HelpIdle
ManifestNext ==
    \/ ReadFile
    \/ ParseManifest
    \/ ReturnCommands
    \/ GetCommandIds
SpecManifest == ManifestSpecInit /\ [][ManifestNext]_vars

-----------------------------------------------------------------------------
(* capitanoizeOclifUsage, defaultUsage, getCommandIdsFromManifest: properties *)

\* "ENV ADD NAME [VALUE]"
EnvAddNameValue ==
    <<"E","N","V"," ","A","D","D"," ","N","A","M","E"," ","[","V","A","L","U","E","]">>

\* C6 (as claimed): capitanoizeOclifUsage("ENV ADD NAME [VALUE]") returns
\* "env add <name> [value]": the command words ENV and ADD are lowercased
\* without being wrapped.
C6_CommandWordsNotWrapped ==
    (usageResult.returned /\ oclifUsage = EnvAddNameValue) =>
        usageResult.value =
            <<"e","n","v"," ","a","d","d"," ","<","n","a","m","e",">"," ",
              "[","v","a","l","u","e","]">>

\* C6 (amended): capitanoizeOclifUsage("ENV ADD NAME [VALUE]") returns
\* "env <add> <name> [value]": every all-uppercase token that follows
\* whitespace (ADD, NAME) is wrapped in angle brackets, the first token (ENV)
\* and the bracketed token ([VALUE]) are only lowercased, and the result of
\* any call holds no uppercase letter. A word that starts with an uppercase
\* letter outside A-Z is lowercased without being wrapped ("add \u00c9COLE"
\* gives "add \u00e9cole").
C6_UppercaseWordsAfterSpaceWrapped ==
    usageResult.returned =>
        /\ oclifUsage = EnvAddNameValue =>
             usageResult.value =
                 <<"e","n","v"," ","<","a","d","d",">"," ","<","n","a","m","e",">"," ",
                   "[","v","a","l","u","e","]">>
        /\ oclifUsage = <<"a","d","d"," ","U+00C9","C","O","L","E">> =>
             usageResult.value = <<"a","d","d"," ","U+00E9","c","o","l","e">>
        /\ \A k \in 1..Len(usageResult.value) :
             usageResult.value[k] \notin Range(UpperCase) \cup Range(Latin1Upper)

C6_Witness == usageResult.returned /\ oclifUsage = EnvAddNameValue

\* The arguments a usage line shows, in input order.
VisibleArgs == SelectSeq(IF "args" \in DOMAIN command THEN command.args ELSE <<>>,
                         LAMBDA a : ~a.hidden)

\* The words from the k-th on, one space between two words.
RECURSIVE UsageLine(_, _)
UsageLine(words, k) ==
    IF k > Len(words) THEN <<>>
    ELSE (IF k > 1 THEN <<" ">> ELSE <<>>) \o words[k] \o UsageLine(words, k + 1)

\* NAME: the uppercased argument name
UpperName(a) == toUpperCase(a.name)

AngleBracketed(a) ==
    IF a.required THEN <<"<">> \o UpperName(a) \o <<">">>
    ELSE <<"[", "<">> \o UpperName(a) \o <<">", "]">>

Bare(a) == IF a.required THEN UpperName(a) ELSE <<"[">> \o UpperName(a) \o <<"]">>

\* C7 (as claimed): defaultUsage returns the space-joined rendering of the
\* non-hidden arguments in input order, a required one as <NAME> and an
\* optional one as [<NAME>]; hidden arguments contribute nothing.
C7_ArgsInAngleBrackets ==
    helpResult.returned => helpResult.value =
        UsageLine([k \in 1..Len(VisibleArgs) |-> AngleBracketed(VisibleArgs[k])], 1)

\* C7 (amended): defaultUsage returns the space-joined rendering of the
\* non-hidden arguments in input order, a required one as NAME and an optional
\* one as [NAME] (NAME the uppercased name, "\u00e9\u00df" giving "\u00c9SS");
\* hidden arguments contribute nothing and an empty or all-hidden sequence
\* gives the empty string.
C7_ArgsBareOrSquareBracketed ==
    helpResult.returned =>
        /\ helpResult.value =
             UsageLine([k \in 1..Len(VisibleArgs) |-> Bare(VisibleArgs[k])], 1)
        /\ VisibleArgs = <<>> => helpResult.value = <<>>
        /\ \A a \in Range(VisibleArgs) :
             /\ a.name = <<"n","a","m","e">> => UpperName(a) = <<"N","A","M","E">>
             /\ a.name = <<"v","A","l">> => UpperName(a) = <<"V","A","L">>
             /\ a.name = <<"U+00E9","U+00DF">> => UpperName(a) = <<"U+00C9","S","S">>

C7_Witness ==
    /\ helpResult.returned
    /\ "args" \in DOMAIN command
    /\ Len(command.args) = MaxArgs
    /\ \E i, j, k \in 1..MaxArgs :
         /\ command.args[i].hidden
         /\ ~command.args[j].hidden /\ command.args[j].required
         /\ ~command.args[k].hidden /\ ~command.args[k].required

\* C5: getCommandIdsFromManifest fails with the 'manifest not found' error
\* when the file is absent, fails with the 'commands section missing' error
\* when the file is valid JSON without a `commands` field (or with a null
\* one), returns exactly the keys of `commands` when it is present, and
\* passes any other read or parse error on unchanged.
C5_ManifestOutcomes ==
    mpc = "done" =>
        CASE manifestFile.state = "absent" ->
                 manifestResult = Rejected([type |-> "Error", text |-> "Oclif manifest not found."])
          [] manifestFile.state = "unreadable" -> manifestResult = Rejected(EACCES)
          [] manifestFile.state = "malformed" -> manifestResult = Rejected(SyntaxError)
          [] OTHER ->
                 IF manifestFile.json.commands.kind \in {"undefined", "null"}
                 THEN manifestResult =
                          Rejected([type |-> "Error", text |-> "Commands second not found in manifest."])
                 ELSE /\ manifestResult.status = "resolved"
                      /\ manifestResult.value =
                           IF manifestFile.json.commands.kind = "object"
                           THEN manifestFile.json.commands.names
                           ELSE IF manifestFile.json.commands.kind = "number" THEN {}
                           ELSE {"0", "1"}

====
